---- MODULE Spec2Model ----
(***************************************************************************)
(* A model of src/src/lib.rs: the SSH struct (an optional ssh2 Session,    *)
(* a host and a port) and its public operations.  The ssh2 transport, the  *)
(* remote host and the local file system are the environment: what they    *)
(* answer is chosen with \E in each action.  One action is one whole call  *)
(* of a public method; `last` records what that call did and returned,     *)
(* `recent` the transport built by the latest connect that returned Ok.    *)
(*                                                                         *)
(* A Rust panic (unwrap on None or Err, a failed assert!) ends the run:    *)
(* no operation is taken after a call whose result is "Panic".             *)
(***************************************************************************)
EXTENDS Integers, Sequences, FiniteSets, TLC

VARIABLES host, port, session, live, remote, last, recent

vars == <<host, port, session, live, remote, last, recent>>

\* ------------------------------------------------------------ bounds
\* Longest local / remote file of the model, in bytes.
MaxFileLen == 2
\* Capacity of the BufReader's internal buffer (std's is 8192; scaled down
\* so that files both shorter and longer than one buffer occur).
BufCap == 1
\* Transport identities available (one stored, one under construction).
MaxTransports == 2
\* Most identities the agent reports.
MaxIdentities == 2

\* ------------------------------------------------------------ constants
\* const SCPMODE: i32 = 0o644
SCPMODE == 420

Bytes == {0, 255}
Hosts == {"localhost"}
Ports == {22, 2222}
Intervals == {0, 30}
Paths == {"/tmp/x"}
Cmds == {"echo hello", "true"}
Comments == {"key-a", "key-b"}
Blobs == {1, 2}
TransportIds == 1..MaxTransports

Contents == UNION {[1..n -> Bytes] : n \in 0..MaxFileLen}

Min(a, b) == IF a < b THEN a ELSE b

Take(s, n) == SubSeq(s, 1, Min(n, Len(s)))

\* What the remote prints for a command (the remote shell is environment).
RemoteStdout(cmd) == IF cmd = "echo hello" THEN "hello\n" ELSE ""

\* ------------------------------------------------------------ state
\* session: Option<Session>.  `some` is the Option's tag.
None == [some |-> FALSE, id |-> 0, authed |-> FALSE, reply |-> FALSE, interval |-> 0]

Some(id) == [some |-> TRUE, id |-> id, authed |-> TRUE, reply |-> FALSE, interval |-> 0]

NoFile == [exists |-> FALSE, data |-> <<>>, mode |-> 0]

\* A channel handle as the call that opened it sees it.
NoChan == [opened |-> FALSE, kind |-> "none", open |-> FALSE, closes |-> 0]

OpenChan(kind) == [opened |-> TRUE, kind |-> kind, open |-> TRUE, closes |-> 0]

\* channel.close() returning Ok.
Close(ch) == [ch EXCEPT !.open = FALSE, !.closes = @ + 1]

\* The handle going out of scope: ssh2 frees the channel, which closes it
\* when it was not closed before.
Drop(ch) == IF ch.open THEN Close(ch) ELSE ch

\* The record of a call, before it has done anything.
Blank(op) ==
  [op |-> op, res |-> "Ok", fail |-> "none", steps |-> <<>>, chan |-> NoChan,
   flag |-> FALSE, out |-> "", data |-> <<>>, size |-> 0, local |-> <<>>,
   declared |-> 0, mode |-> 0, accepted |-> 0, path |-> "",
   reply |-> FALSE, interval |-> 0, on |-> 0, probe |-> "none", cmd |-> "",
   agent |-> "none", reported |-> <<>>, ids |-> <<>>]

Crashed == last.res = "Panic"

\* SSH::new(host, port): no I/O, session: None.
Init ==
  /\ host \in Hosts
  /\ port \in Ports
  /\ session = None
  /\ live = {}
  /\ remote = [p \in Paths |-> NoFile]
  /\ last = Blank("new")
  /\ recent = 0

\* A call returns: `r` is its record.
Return(r) == last' = r

\* ------------------------------------------------------------ connect
\* The identity of the transport a call to create_socket builds.
FreshId == CHOOSE i \in TransportIds : i \notin live

\* create_socket: f is the step the environment fails ("none": no step).
create_socket(f) ==
  IF f = "TcpStream::connect"
  THEN [ok |-> FALSE, fail |-> f, steps |-> <<"TcpStream::connect">>]
  ELSE IF f = "Session::new"
  THEN [ok |-> FALSE, fail |-> f, steps |-> <<"TcpStream::connect", "Session::new">>]
  ELSE IF f = "handshake"
  THEN [ok |-> FALSE, fail |-> f,
        steps |-> <<"TcpStream::connect", "Session::new", "set_tcp_stream", "handshake">>]
  ELSE [ok |-> TRUE, fail |-> "none",
        steps |-> <<"TcpStream::connect", "Session::new", "set_tcp_stream", "handshake">>]

ConnectFailures(auth) ==
  {"none", "TcpStream::connect", "Session::new", "handshake", auth, "authenticated"}

\* A connect that tries the handshake a second time when it fails.
ConnectResultRetriesHandshake(auth, f) ==
  LET cs == create_socket(f) IN
  IF ~cs.ok
  THEN [res |-> "Err", fail |-> cs.fail,
        steps |-> IF f = "handshake" THEN cs.steps \o <<"handshake">> ELSE cs.steps,
        store |-> FALSE]
  ELSE IF f = auth
  THEN [res |-> "Err", fail |-> auth, steps |-> cs.steps \o <<auth>>, store |-> FALSE]
  ELSE IF f = "authenticated"
  THEN [res |-> "Panic", fail |-> "authenticated",
        steps |-> cs.steps \o <<auth, "authenticated">>, store |-> FALSE]
  ELSE [res |-> "Ok", fail |-> "none",
        steps |-> cs.steps \o <<auth, "authenticated", "store">>, store |-> TRUE]

\* A connect that stores the transport before it authenticates.
ConnectResultStoresEarly(auth, f) ==
  LET cs == create_socket(f) IN
  IF ~cs.ok
  THEN [res |-> "Err", fail |-> cs.fail, steps |-> cs.steps, store |-> FALSE]
  ELSE IF f = auth
  THEN [res |-> "Err", fail |-> auth, steps |-> cs.steps \o <<"store", auth>>, store |-> TRUE]
  ELSE IF f = "authenticated"
  THEN [res |-> "Panic", fail |-> "authenticated",
        steps |-> cs.steps \o <<"store", auth, "authenticated">>, store |-> TRUE]
  ELSE [res |-> "Ok", fail |-> "none",
        steps |-> cs.steps \o <<"store", auth, "authenticated">>, store |-> TRUE]

\* The body of connect / connect_agent: auth is the userauth call, f the
\* failing step; f = "authenticated" is the userauth call returning Ok with
\* the transport's authenticated flag false.
ConnectResult(auth, f) ==
  LET cs == create_socket(f) IN
  IF ~cs.ok
  THEN [res |-> "Err", fail |-> cs.fail, steps |-> cs.steps, store |-> FALSE]
  ELSE IF f = auth
  THEN [res |-> "Err", fail |-> auth, steps |-> cs.steps \o <<auth>>, store |-> FALSE]
  ELSE IF f = "authenticated"
  THEN [res |-> "Panic", fail |-> "authenticated",
        steps |-> cs.steps \o <<auth, "authenticated">>, store |-> FALSE]
  ELSE [res |-> "Ok", fail |-> "none",
        steps |-> cs.steps \o <<auth, "authenticated", "store">>, store |-> TRUE]

\* A connect that stores the transport only when none is stored yet.
SessionAfterConnectKeepsFirst(r, id) ==
  IF r.store /\ ~session.some THEN Some(id) ELSE session

\* A connect that clears self.session when it fails.
SessionAfterConnectClears(r, id) == IF r.store THEN Some(id) ELSE None

\* self.session after the call: assigned only on the success path.
SessionAfterConnect(r, id) == IF r.store THEN Some(id) ELSE session

\* The sockets / transports the call holds once TcpStream::connect returned.
Acquired(r, id) == IF r.fail = "TcpStream::connect" THEN live ELSE live \cup {id}

\* A connect whose failure paths keep the socket they opened.
LiveAfterConnectLeaks(r, id) ==
  IF r.store THEN Acquired(r, id) \ {session.id} ELSE Acquired(r, id)

\* The transports alive after the call: the local socket / `sess` is dropped
\* on every path that does not store it (a ? return, the unwinding assert),
\* and the assignment to self.session drops the transport it replaces.
LiveAfterConnect(r, id) ==
  IF r.store THEN Acquired(r, id) \ {session.id} ELSE Acquired(r, id) \ {id}

\* The transport of the latest connect that returned Ok.
RecentAfterConnect(r, id) == IF r.res = "Ok" THEN id ELSE recent

Connect(op, auth) ==
  /\ ~Crashed
  /\ \E f \in ConnectFailures(auth) :
       LET r == ConnectResult(auth, f)
           id == FreshId
       IN /\ session' = SessionAfterConnect(r, id)
          /\ live' = LiveAfterConnect(r, id)
          /\ recent' = RecentAfterConnect(r, id)
          /\ Return([Blank(op) EXCEPT !.res = r.res, !.fail = r.fail, !.steps = r.steps])
  /\ UNCHANGED <<host, port, remote>>

connect == Connect("connect", "userauth_password")

connect_agent == Connect("connect_agent", "userauth_agent")

\* ------------------------------------------------------------ sess_ref
\* self.session.as_ref().unwrap(): the record of call `op` after its first
\* step `step`; unwrap panics when session is None.
Unwrap(op, step) ==
  IF session.some
  THEN [Blank(op) EXCEPT !.steps = <<step>>, !.on = session.id]
  ELSE [Blank(op) EXCEPT !.res = "Panic", !.fail = step, !.steps = <<step>>]

sess_ref(op) == Unwrap(op, "sess_ref")

Step(r, s) == [r EXCEPT !.steps = Append(@, s)]

Err(r, s) == [Step(r, s) EXCEPT !.res = "Err", !.fail = s]

Panic(r, s) == [Step(r, s) EXCEPT !.res = "Panic", !.fail = s]

\* ------------------------------------------------------------ authed
authedBody ==
  LET r0 == sess_ref("authed") IN
  IF r0.res = "Panic" THEN r0
  ELSE [Step(r0, "authenticated") EXCEPT !.flag = session.authed]

authed ==
  /\ ~Crashed
  /\ Return(authedBody)
  /\ UNCHANGED <<host, port, session, live, remote, recent>>

\* ------------------------------------------------------------ keepalive
\* The probe the transport was asked to send: f = "keepalive_send" is the
\* send failing.
Probe(f) == IF f = "keepalive_send" THEN "failed" ELSE "sent"

\* A keepalive that discards the result of keepalive_send.
keepaliveBodyIgnoresProbe(reply, interval, f) ==
  LET r0 == [sess_ref("keepalive") EXCEPT !.reply = reply, !.interval = interval] IN
  IF r0.res = "Panic" THEN r0
  ELSE LET r1 == Step(Step(r0, "set_keepalive"), "sess_ref") IN
       [Step(r1, "keepalive_send") EXCEPT !.probe = Probe(f)]

keepaliveBody(reply, interval, f) ==
  LET r0 == [sess_ref("keepalive") EXCEPT !.reply = reply, !.interval = interval] IN
  IF r0.res = "Panic" THEN r0
  ELSE LET r1 == Step(Step(r0, "set_keepalive"), "sess_ref") IN
       IF f = "keepalive_send"
       THEN [Err(r1, "keepalive_send") EXCEPT !.probe = Probe(f)]
       ELSE [Step(r1, "keepalive_send") EXCEPT !.probe = Probe(f)]

\* A keepalive that keeps the new configuration only when the probe was sent.
SessionAfterKeepaliveOnSuccessOnly(r, reply, interval) ==
  IF r.res # "Ok" THEN session
  ELSE [session EXCEPT !.reply = reply, !.interval = interval]

\* set_keepalive is applied as soon as the first sess_ref has returned.
SessionAfterKeepalive(r, reply, interval) ==
  IF r.res = "Panic" THEN session
  ELSE [session EXCEPT !.reply = reply, !.interval = interval]

keepalive ==
  /\ ~Crashed
  /\ \E reply \in BOOLEAN, interval \in Intervals, f \in {"none", "keepalive_send"} :
       LET r == keepaliveBody(reply, interval, f) IN
       /\ session' = SessionAfterKeepalive(r, reply, interval)
       /\ Return(r)
  /\ UNCHANGED <<host, port, live, remote, recent>>

\* ------------------------------------------------------------ tunnel, forward
\* assert_eq!(self.authed(), true); channel_direct_tcpip(..).unwrap(); the
\* channel is returned to the caller, open.
DirectTcpipBody(op, f) ==
  LET r0 == sess_ref(op) IN
  IF r0.res = "Panic" THEN r0
  ELSE LET r1 == Step(r0, "authenticated") IN
       IF ~session.authed THEN Panic(r1, "assert_eq")
       ELSE LET r2 == Step(Step(r1, "assert_eq"), "sess_ref") IN
            IF f = "channel_direct_tcpip" THEN Panic(r2, "channel_direct_tcpip")
            ELSE [Step(r2, "channel_direct_tcpip") EXCEPT !.chan = OpenChan("direct-tcpip")]

DirectTcpip(op) ==
  /\ ~Crashed
  /\ \E f \in {"none", "channel_direct_tcpip"} : Return(DirectTcpipBody(op, f))
  /\ UNCHANGED <<host, port, session, live, remote, recent>>

tunnel == DirectTcpip("tunnel")

forward == DirectTcpip("forward")

\* ------------------------------------------------------------ get_shell
\* A get_shell that closes the channel only on its success path.
get_shellBodyClosesOnSuccessOnly(f) ==
  LET r0 == sess_ref("get_shell") IN
  IF r0.res = "Panic" THEN r0
  ELSE IF f = "channel_session" THEN Err(r0, "channel_session")
  ELSE LET r1 == Step(r0, "channel_session")
           ch == OpenChan("session")
       IN IF f = "request_pty" THEN [Err(r1, "request_pty") EXCEPT !.chan = ch]
          ELSE LET r2 == Step(r1, "request_pty") IN
               IF f = "shell" THEN [Err(r2, "shell") EXCEPT !.chan = ch]
               ELSE LET r3 == Step(r2, "shell") IN
                    IF f = "close" THEN [Err(r3, "close") EXCEPT !.chan = ch]
                    ELSE [Step(r3, "close") EXCEPT !.chan = Close(ch)]

get_shellBody(f) ==
  LET r0 == sess_ref("get_shell") IN
  IF r0.res = "Panic" THEN r0
  ELSE IF f = "channel_session" THEN Err(r0, "channel_session")
  ELSE LET r1 == Step(r0, "channel_session")
           ch == OpenChan("session")
       IN IF f = "request_pty" THEN [Err(r1, "request_pty") EXCEPT !.chan = Drop(ch)]
          ELSE LET r2 == Step(r1, "request_pty") IN
               IF f = "shell" THEN [Err(r2, "shell") EXCEPT !.chan = Drop(ch)]
               ELSE LET r3 == Step(r2, "shell") IN
                    IF f = "close" THEN [Err(r3, "close") EXCEPT !.chan = Drop(ch)]
                    ELSE [Step(r3, "close") EXCEPT !.chan = Drop(Close(ch))]

get_shell ==
  /\ ~Crashed
  /\ \E f \in {"none", "channel_session", "request_pty", "shell", "close"} :
       Return(get_shellBody(f))
  /\ UNCHANGED <<host, port, session, live, remote, recent>>

\* ------------------------------------------------------------ run_command
\* A run_command that discards the result of exec and reads on.
run_commandBodyIgnoresExec(cmd, f) ==
  LET r0 == [sess_ref("run_command") EXCEPT !.cmd = cmd] IN
  IF r0.res = "Panic" THEN r0
  ELSE IF f = "channel_session" THEN Err(r0, "channel_session")
  ELSE LET r2 == Step(Step(r0, "channel_session"), "exec")
           ch == OpenChan("session")
       IN IF f = "read_to_string"
          THEN [Err(r2, "read_to_string") EXCEPT !.chan = Drop(ch)]
          ELSE [Step(r2, "read_to_string") EXCEPT
                  !.chan = Drop(ch),
                  !.out = IF f = "exec" THEN "" ELSE RemoteStdout(cmd)]

run_commandBody(cmd, f) ==
  LET r0 == [sess_ref("run_command") EXCEPT !.cmd = cmd] IN
  IF r0.res = "Panic" THEN r0
  ELSE IF f = "channel_session" THEN Err(r0, "channel_session")
  ELSE LET r1 == Step(r0, "channel_session")
           ch == OpenChan("session")
       IN IF f = "exec" THEN [Err(r1, "exec") EXCEPT !.chan = Drop(ch)]
          ELSE LET r2 == Step(r1, "exec") IN
               IF f = "read_to_string"
               THEN [Err(r2, "read_to_string") EXCEPT !.chan = Drop(ch)]
               ELSE [Step(r2, "read_to_string") EXCEPT
                       !.chan = Drop(ch), !.out = RemoteStdout(cmd)]

run_command ==
  /\ ~Crashed
  /\ \E cmd \in Cmds, f \in {"none", "channel_session", "exec", "read_to_string"} :
       Return(run_commandBody(cmd, f))
  /\ UNCHANGED <<host, port, session, live, remote, recent>>

\* ------------------------------------------------------------ upload_file
\* reader.fill_buf(): one read into the BufReader's buffer.
fill_buf(file) == Take(file, BufCap)

\* How many bytes one Write::write call on the channel may accept.
Accepts(data) == IF Len(data) = 0 THEN {0} ELSE 1..Len(data)

\* An upload_file that declares the file's length instead of the length of
\* what it read.
upload_fileBodyDeclaresFileLen(file, dest, f, k) ==
  LET r0 == [sess_ref("upload_file") EXCEPT !.path = dest] IN
  IF r0.res = "Panic" THEN r0
  ELSE IF f = "File::open" THEN Err(r0, "File::open")
  ELSE LET r1 == [Step(r0, "File::open") EXCEPT !.local = file] IN
       IF f = "fill_buf" THEN Err(r1, "fill_buf")
       ELSE LET r2 == [Step(r1, "fill_buf") EXCEPT !.declared = Len(file), !.mode = SCPMODE]
            IN IF f = "scp_send" THEN Panic(r2, "scp_send")
               ELSE LET r3 == Step(r2, "scp_send")
                        ch == OpenChan("scp_send")
                    IN IF f = "write" THEN [Err(r3, "write") EXCEPT !.chan = Drop(ch)]
                       ELSE [Step(r3, "write") EXCEPT !.chan = Drop(ch), !.accepted = k]

\* file: the local file's bytes; f: the failing step; k: the bytes the
\* channel accepts from the one write call.
upload_fileBody(file, dest, f, k) ==
  LET r0 == [sess_ref("upload_file") EXCEPT !.path = dest] IN
  IF r0.res = "Panic" THEN r0
  ELSE IF f = "File::open" THEN Err(r0, "File::open")
  ELSE LET r1 == [Step(r0, "File::open") EXCEPT !.local = file] IN
       IF f = "fill_buf" THEN Err(r1, "fill_buf")
       ELSE LET data == fill_buf(file)
                data_len == Len(data)
                r2 == [Step(r1, "fill_buf") EXCEPT !.declared = data_len, !.mode = SCPMODE]
            IN IF f = "scp_send" THEN Panic(r2, "scp_send")
               ELSE LET r3 == Step(r2, "scp_send")
                        ch == OpenChan("scp_send")
                    IN IF f = "write" THEN [Err(r3, "write") EXCEPT !.chan = Drop(ch)]
                       ELSE [Step(r3, "write") EXCEPT !.chan = Drop(ch), !.accepted = k]

\* The remote file after the call: created by the SCP-send request with the
\* declared mode, holding the bytes the channel accepted.
RemoteAfterUpload(r, dest) ==
  IF r.chan.opened
  THEN [remote EXCEPT ![dest] =
          [exists |-> TRUE, data |-> Take(r.local, r.accepted), mode |-> r.mode]]
  ELSE remote

upload_file ==
  /\ ~Crashed
  /\ \E file \in Contents, dest \in Paths,
        f \in {"none", "File::open", "fill_buf", "scp_send", "write"} :
       \E k \in (IF f = "none" THEN Accepts(fill_buf(file)) ELSE {0}) :
         LET r == upload_fileBody(file, dest, f, k) IN
         /\ remote' = RemoteAfterUpload(r, dest)
         /\ Return(r)
  /\ UNCHANGED <<host, port, session, live, recent>>

\* ------------------------------------------------------------ get_file
get_fileBody(fpath, f) ==
  LET r0 == [Unwrap("get_file", "session.unwrap") EXCEPT !.path = fpath] IN
  IF r0.res = "Panic" THEN r0
  ELSE IF f = "scp_recv" \/ ~remote[fpath].exists THEN Err(r0, "scp_recv")
  ELSE LET r1 == Step(r0, "scp_recv")
           ch == OpenChan("scp_recv")
       IN IF f = "read_to_end" THEN [Err(r1, "read_to_end") EXCEPT !.chan = Drop(ch)]
          ELSE [Step(r1, "read_to_end") EXCEPT
                  !.chan = Drop(ch), !.data = remote[fpath].data,
                  !.size = Len(remote[fpath].data), !.mode = remote[fpath].mode]

get_file ==
  /\ ~Crashed
  /\ \E fpath \in Paths, f \in {"none", "scp_recv", "read_to_end"} :
       Return(get_fileBody(fpath, f))
  /\ UNCHANGED <<host, port, session, live, remote, recent>>

\* ------------------------------------------------------------ identities
Identities == [comment : Comments, blob : Blobs]

\* What the agent reports: at most MaxIdentities identities.
AgentLists == UNION {[1..n -> Identities] : n \in 0..MaxIdentities}

\* A map insert that keeps the entry a key already has.
InsertKeepsFirst(m, c, b) ==
  [x \in DOMAIN m \cup {c} |-> IF x \in DOMAIN m THEN m[x] ELSE b]

\* HashMap::insert: the new value replaces the one the key had.
Insert(m, c, b) == [x \in DOMAIN m \cup {c} |-> IF x = c THEN b ELSE m[x]]

RECURSIVE InsertAll(_, _)
\* The for loop over agent.identities().
InsertAll(seq, m) ==
  IF seq = <<>> THEN m
  ELSE InsertAll(Tail(seq), Insert(m, Head(seq).comment, Head(seq).blob))

\* The agent going out of scope: its connection is released.
DropAgent(r) == IF r.agent = "open" THEN [r EXCEPT !.agent = "closed"] ELSE r

\* The statements of identities: every fallible call is unwrapped.
identitiesRun(reported, f) ==
  LET r0 == Blank("identities") IN
  IF f = "Session::new" THEN Panic(r0, "Session::new")
  ELSE LET r1 == Step(r0, "Session::new") IN
       IF f = "agent" THEN Panic(r1, "agent")
       ELSE LET r2 == Step(r1, "agent") IN
            IF f = "connect" THEN Panic(r2, "connect")
            ELSE LET r3 == [Step(r2, "connect") EXCEPT !.agent = "open"] IN
                 IF f = "list_identities" THEN Panic(r3, "list_identities")
                 ELSE LET r4 == [Step(r3, "list_identities") EXCEPT !.reported = reported] IN
                      IF f = "identity" THEN Panic(r4, "identity")
                      ELSE [Step(r4, "insert") EXCEPT !.ids = InsertAll(reported, <<>>)]

\* A static function: no Session is involved.  The agent is a local, dropped
\* on return and on unwinding.
identitiesBody(reported, f) == DropAgent(identitiesRun(reported, f))

\* The agent's answer matters only once list_identities has returned; a
\* failed read of an identity ends the call, whatever was read before it.
AgentListsFor(f) ==
  IF f = "none" THEN AgentLists
  ELSE IF f = "identity" THEN {<<i>> : i \in Identities}
  ELSE {<<>>}

identities ==
  /\ ~Crashed
  /\ \E f \in {"none", "Session::new", "agent", "connect", "list_identities", "identity"} :
       \E reported \in AgentListsFor(f) :
         Return(identitiesBody(reported, f))
  /\ UNCHANGED <<host, port, session, live, remote, recent>>

Next ==
  \/ connect
  \/ connect_agent
  \/ authed
  \/ keepalive
  \/ tunnel
  \/ forward
  \/ get_shell
  \/ run_command
  \/ upload_file
  \/ get_file
  \/ identities

Spec == Init /\ [][Next]_vars

\* ------------------------------------------------------------ properties
ConnectOps == {"connect", "connect_agent"}

\* runCommand, uploadFile, downloadFile, setKeepalive.
ChannelOps == {"run_command", "upload_file", "get_file", "keepalive"}

\* runCommand, openShell, uploadFile, downloadFile.
ChannelOpeningOps == {"run_command", "get_shell", "upload_file", "get_file"}

\* The steps of a call that talk to the network.
NetworkSteps ==
  {"TcpStream::connect", "handshake", "userauth_password", "userauth_agent",
   "channel_session", "exec", "read_to_string", "request_pty", "shell", "close",
   "scp_send", "write", "scp_recv", "read_to_end", "keepalive_send",
   "channel_direct_tcpip"}

Did(r, s) == \E i \in 1..Len(r.steps) : r.steps[i] = s

NoNetworkIO(r) == \A i \in 1..Len(r.steps) : r.steps[i] \notin NetworkSteps

\* C1: on a Session that holds no transport, run_command, upload_file,
\* get_file and keepalive return an error value (NotAuthenticatedError, not a
\* crash) and perform no network I/O.
C1_NotAuthenticatedIsAnError ==
  (last.op \in ChannelOps /\ ~session.some) =>
    (last.res = "Err" /\ NoNetworkIO(last) /\ ~last.chan.opened)

\* C2: when the userauth call returns Ok but the transport's authenticated
\* flag is false, connect / connect_agent return an error value (AuthError),
\* store nothing and do not crash.
C2_UnauthenticatedFlagIsAnError ==
  (last.op \in ConnectOps /\ last.fail = "authenticated") =>
    (last.res = "Err" /\ ~Did(last, "store"))

\* C3: a connect / connect_agent call that fails leaves host, port and
\* session as they were before the call, and after a call that returned an
\* error the Session can be connected again.
C3_FailedConnectKeepsState ==
  /\ [][(last'.op \in ConnectOps /\ last'.res # "Ok") =>
          (session' = session /\ host' = host /\ port' = port)]_vars
  /\ []((last.op \in ConnectOps /\ last.res = "Err") => ENABLED connect)

C3_Witness ==
  /\ last.op \in ConnectOps
  /\ last.res = "Err"
  /\ last.fail \in {"handshake", "userauth_password", "userauth_agent"}
  /\ ~session.some

\* C4: when the TCP connect fails, connect / connect_agent return an error
\* (SocketError), and an authed() call that follows returns false.
C4_UnreachableThenNotAuthenticated ==
  /\ []((last.op \in ConnectOps /\ last.fail = "TcpStream::connect") => last.res = "Err")
  /\ [][(/\ last.op \in ConnectOps
         /\ last.fail = "TcpStream::connect"
         /\ last'.op = "authed")
        => (last'.res = "Ok" /\ last'.flag = FALSE)]_vars

\* C5: in every reachable state authed() returns a boolean without failing:
\* true exactly when a transport is present and reports itself authenticated.
C5_AuthedNeverFails ==
  (last.op = "authed") =>
    (last.res = "Ok" /\ last.flag = (session.some /\ session.authed))

\* C6: once the Session holds a transport it holds one in every later state.
C6_TransportNeverCleared == [][session.some => session'.some]_vars

C6_Witness ==
  /\ session.some
  /\ last.op \in ConnectOps
  /\ last.res = "Err"

\* C7: every channel opened by run_command, get_shell, upload_file or
\* get_file is closed exactly once by the time the call has returned, on
\* every exit path.
C7_ChannelClosedExactlyOnce ==
  (last.op \in ChannelOpeningOps /\ last.chan.opened) =>
    (~last.chan.open /\ last.chan.closes = 1)

C7_Witness ==
  /\ last.op = "get_shell"
  /\ last.res = "Err"
  /\ last.fail = "shell"
  /\ last.chan.opened
  /\ last.chan.closes = 1

\* C8: an upload_file of a local file of N bytes followed by a get_file of
\* the same path returns exactly those N bytes and a stat whose size is N.
C8_UploadDownloadRoundTrip ==
  [][(/\ last.op = "upload_file"
      /\ last.res = "Ok"
      /\ last'.op = "get_file"
      /\ last'.res = "Ok"
      /\ last'.path = last.path)
     => (last'.data = last.local /\ last'.size = Len(last.local))]_vars

\* C9: when the remote refuses the SCP-send request, upload_file returns an
\* error value (ChannelOpenError, not a crash), writes no file bytes and
\* leaves the transport in place.
C9_ScpSendRefusedIsAnError ==
  (last.op = "upload_file" /\ last.fail = "scp_send") =>
    (last.res = "Err" /\ ~Did(last, "write") /\ last.accepted = 0 /\ session.some)

\* C10: upload_file returns Ok only if the channel accepted as many bytes as
\* were declared and the declared length is the local file's length; when the
\* channel accepts fewer bytes than declared it returns an error
\* (TransferError).
C10_UploadOkOnlyWhenComplete ==
  /\ (last.op = "upload_file" /\ last.res = "Ok") =>
       (last.accepted = last.declared /\ last.declared = Len(last.local))
  /\ (last.op = "upload_file" /\ last.chan.opened /\ last.accepted < last.declared) =>
       (last.res = "Err" /\ last.fail = "write")

\* C11: every socket and transport a connect / connect_agent call creates
\* and does not store is released before the call returns, so the only live
\* transport is the one stored in the Session (none when none is stored).
C11_OnlyStoredTransportIsLive ==
  live = (IF session.some THEN {session.id} ELSE {})

C11_Witness ==
  /\ last.op \in ConnectOps
  /\ last.fail \in {"handshake", "userauth_password", "userauth_agent", "authenticated"}
  /\ session.some
  /\ live = {session.id}

\* C12: a channel operation (run_command, upload_file, get_file, keepalive)
\* that gets past sess_ref works on the transport stored by the latest
\* connect that returned Ok, which is live and authenticated, whatever
\* connects failed in between.
C12_ChannelOpsUseLatestTransport ==
  (last.op \in ChannelOps /\ last.res # "Panic") =>
    (/\ recent \in TransportIds
     /\ last.on = recent
     /\ last.on \in live
     /\ session.id = recent
     /\ session.authed)

\* A channel was opened on the transport of a second successful connect.
C12_Witness ==
  /\ last.op = "run_command"
  /\ last.chan.opened
  /\ last.on = 2
  /\ recent = 2

Count(seq, s) == Cardinality({i \in 1..Len(seq) : seq[i] = s})

\* The place of the first s in seq, 0 when there is none.
Pos(seq, s) ==
  IF \E i \in 1..Len(seq) : seq[i] = s
  THEN CHOOSE i \in 1..Len(seq) : seq[i] = s /\ \A j \in 1..(i - 1) : seq[j] # s
  ELSE 0

\* C13: on a Session that holds a transport, keepalive sends exactly one
\* probe before it returns, returns an error exactly when sending that probe
\* failed, and returns Ok when the probe was sent.
C13_KeepaliveSendsOneProbe ==
  (last.op = "keepalive" /\ last.res # "Panic") =>
    (/\ Count(last.steps, "keepalive_send") = 1
     /\ last.probe \in {"sent", "failed"}
     /\ (last.res = "Err") <=> (last.probe = "failed")
     /\ (last.res = "Ok") <=> (last.probe = "sent"))

C13_Witness ==
  /\ last.op = "keepalive"
  /\ last.res = "Err"
  /\ last.probe = "failed"
  /\ Count(last.steps, "keepalive_send") = 1

AgentFailures == {"agent", "connect", "list_identities", "identity"}

\* C14: identities returns an error value in every agent failure case
\* (AgentUnavailableError when the agent cannot be opened or connected,
\* AgentProtocolError when listing or reading an identity fails), never
\* crashes, and leaves no agent connection open.
C14_AgentFailuresAreErrors ==
  (last.op = "identities") =>
    (/\ last.res # "Panic"
     /\ (last.fail \in AgentFailures => last.res = "Err")
     /\ last.agent # "open")

\* The comments the agent reported.
ReportedComments(r) == {r.reported[i].comment : i \in 1..Len(r.reported)}

\* The place of the last identity reported with comment c.
LastWith(r, c) ==
  CHOOSE i \in 1..Len(r.reported) :
    /\ r.reported[i].comment = c
    /\ \A j \in (i + 1)..Len(r.reported) : r.reported[j].comment # c

\* C15: the mapping identities returns has exactly one entry per distinct
\* comment reported; with all comments distinct it has as many entries as
\* identities were reported, and an entry holds the blob of the identity
\* reported last with its comment.
C15_IdentitiesLastWriteWins ==
  (last.op = "identities" /\ last.res = "Ok") =>
    (/\ DOMAIN last.ids = ReportedComments(last)
     /\ \A c \in ReportedComments(last) :
          last.ids[c] = last.reported[LastWith(last, c)].blob
     /\ (Cardinality(ReportedComments(last)) = Len(last.reported)
           => Cardinality(DOMAIN last.ids) = Len(last.reported)))

\* Two identities with one comment and different blobs.
C15_Witness ==
  /\ last.op = "identities"
  /\ last.res = "Ok"
  /\ Len(last.reported) = 2
  /\ last.reported[1].comment = last.reported[2].comment
  /\ last.reported[1].blob # last.reported[2].blob
  /\ Cardinality(DOMAIN last.ids) = 1

IsPrefix(a, b) == Len(a) <= Len(b) /\ \A i \in 1..Len(a) : a[i] = b[i]

RunCommandSteps == <<"sess_ref", "channel_session", "exec", "read_to_string">>

\* C16: on a Session that holds a transport, run_command opens the channel,
\* requests exec and reads to the end, in that order and each only after the
\* one before succeeded; it returns Ok only with the command's whole output,
\* returns the error of the step that failed and does nothing after it.
C16_RunCommandStepsInOrder ==
  (last.op = "run_command" /\ last.res # "Panic") =>
    (/\ IsPrefix(last.steps, RunCommandSteps)
     /\ last.res = "Ok" =>
          (/\ last.steps = RunCommandSteps
           /\ last.fail = "none"
           /\ last.cmd = "echo hello" => last.out = "hello\n"
           /\ last.cmd = "true" => last.out = "")
     /\ last.res = "Err" =>
          (/\ last.fail \in {"channel_session", "exec", "read_to_string"}
           /\ last.steps[Len(last.steps)] = last.fail
           /\ last.out = ""))

C16_Witness ==
  /\ last.op = "run_command"
  /\ last.res = "Ok"
  /\ last.cmd = "echo hello"
  /\ last.out = "hello\n"
  /\ last.steps = RunCommandSteps

AuthOf(op) == IF op = "connect" THEN "userauth_password" ELSE "userauth_agent"

ConnectSteps(op) ==
  <<"TcpStream::connect", "Session::new", "set_tcp_stream", "handshake",
    AuthOf(op), "authenticated", "store">>

\* C17: a connect / connect_agent call does socket connect, handshake,
\* authentication and the store of the transport in that order, each at most
\* once and each only after the one before succeeded; a failed step is the
\* last step of the call.
C17_ConnectStepsInOrder ==
  (last.op \in ConnectOps) =>
    (/\ IsPrefix(last.steps, ConnectSteps(last.op))
     /\ \A s \in NetworkSteps \cup {"store"} : Count(last.steps, s) <= 1
     /\ (last.res = "Ok") <=> (last.steps = ConnectSteps(last.op))
     /\ last.res = "Ok" => (session.some /\ session.id = recent)
     /\ last.res # "Ok" => last.steps[Len(last.steps)] = last.fail)

C17_Witness ==
  /\ last.op = "connect_agent"
  /\ last.res = "Err"
  /\ last.fail = "userauth_agent"
  /\ Did(last, "handshake")
  /\ ~Did(last, "store")

\* C18: upload_file reads the local file before it opens the SCP-send
\* channel: when the file cannot be opened or read it returns an error
\* (LocalIOError) with no channel opened and nothing sent, and every
\* SCP-send request carries mode 0o644 and the number of bytes read.
C18_UploadReadsBeforeSending ==
  (last.op = "upload_file" /\ last.fail # "sess_ref") =>
    (/\ last.fail \in {"File::open", "fill_buf"} =>
          (last.res = "Err" /\ ~last.chan.opened /\ NoNetworkIO(last))
     /\ Did(last, "scp_send") =>
          (/\ 0 < Pos(last.steps, "File::open")
           /\ Pos(last.steps, "File::open") < Pos(last.steps, "fill_buf")
           /\ Pos(last.steps, "fill_buf") < Pos(last.steps, "scp_send")
           /\ last.mode = 420
           /\ last.declared = Min(Len(last.local), BufCap))
     /\ last.chan.opened =>
          (Did(last, "scp_send") /\ remote[last.path].mode = 420))

C18_Witness ==
  /\ last.op = "upload_file"
  /\ last.chan.opened
  /\ Len(last.local) > BufCap
  /\ last.declared = BufCap
  /\ last.mode = 420

\* C19: keepalive applies the new configuration before it sends the probe
\* and keeps it when the probe fails: after a keepalive that returned an
\* error, the transport holds the configuration passed to that call.
C19_KeepaliveConfigKeptOnFailure ==
  (last.op = "keepalive" /\ last.res # "Panic") =>
    (/\ 0 < Pos(last.steps, "set_keepalive")
     /\ Pos(last.steps, "set_keepalive") < Pos(last.steps, "keepalive_send")
     /\ session.reply = last.reply
     /\ session.interval = last.interval)

C19_Witness ==
  /\ last.op = "keepalive"
  /\ last.res = "Err"
  /\ last.interval = 30
  /\ last.reply
  /\ session.interval = 30
  /\ session.reply

====
